---- MODULE Spec2Model ----
(***************************************************************************)
(* Model of the wordle-words data collection notebook                      *)
(* (src/data-collection.ipynb): the frequency client (fetch,               *)
(* getNgramUsage), the resumable cache cell that appends to wordle.tsv,    *)
(* and the assembler cells that turn wordle.tsv into wordle.csv.           *)
(*                                                                         *)
(* Text is modelled as sequences of one-character strings; a line of a     *)
(* delimited file is the tuple of its fields.  A float64 is a number of    *)
(* tenths (fixed point, one decimal) or NaN, so that formatting a float    *)
(* and parsing it back are computed, not assumed.                          *)
(***************************************************************************)
EXTENDS Integers, Sequences, FiniteSets, TLC

(* ------------------------------ bounds --------------------------------- *)

\* largest number of 429 responses the API gives to one fetch call
MaxRetries == 1
\* largest number of times a run is cut short (interrupt, termination, failed
\* request) or wordle.tsv is removed
MaxStops == 2

(* ------------------------------ values --------------------------------- *)

\* the words the two arrays of wordle.js are drawn from, in ascending order
Vocabulary == <<"abcde", "bcdef", "cdefg">>

Range(s) == {s[i] : i \in 1..Len(s)}

\* position of the first occurrence of x in s (list.index), 1-based
IndexOf(s, x) == CHOOSE i \in 1..Len(s) : s[i] = x /\ \A j \in 1..(i - 1) : s[j] # x

\* python's str comparison, on the words of Vocabulary
WordLess(a, b) == IndexOf(Vocabulary, a) < IndexOf(Vocabulary, b)

Num(n) == [k |-> "num", v |-> n]
IntVal(n) == [k |-> "int", v |-> n]
NaN == [k |-> "nan", v |-> 0]
None == [k |-> "none", v |-> 0]

tooManyReqsCode == 429
wait == 1
url == "https://books.google.com/ngrams/json"
emptyValue == [k |-> "str", v |-> 0]

\* Path(fn).is_file() is false: told apart from every file content
NoFile == << <<"absent", <<>>>> >>

\* 'word\toccurrence\n'
TsvHeader == <<"word", <<"o", "c", "c", "u", "r", "r", "e", "n", "c", "e">>>>
\* the header line to_csv writes for the columns word, occurrence, day
CsvHeader == <<"word", <<"o", "c", "c", "u", "r", "r", "e", "n", "c", "e">>, <<"d", "a", "y">>>>

(* --------------------------- text conversions -------------------------- *)

DigitChars == <<"0", "1", "2", "3", "4", "5", "6", "7", "8", "9">>

DigitVal(c) == IndexOf(DigitChars, c) - 1

RECURSIVE FormatInt(_)
FormatInt(n) ==
    IF n < 10 THEN <<DigitChars[n + 1]>>
    ELSE FormatInt(n \div 10) \o <<DigitChars[(n % 10) + 1]>>

RECURSIVE ParseInt(_)
ParseInt(s) ==
    IF s = <<>> THEN 0
    ELSE 10 * ParseInt(SubSeq(s, 1, Len(s) - 1)) + DigitVal(s[Len(s)])

\* repr of a float64 holding n tenths
FormatFloat(n) == FormatInt(n \div 10) \o <<".">> \o <<DigitChars[(n % 10) + 1]>>

\* '{}'.format(x) and the text to_csv writes for a cell
Str(x) ==
    CASE x.k = "num" -> FormatFloat(x.v)
      [] x.k = "int" -> FormatInt(x.v)
      [] x.k = "nan" -> <<"n", "a", "n">>
      [] OTHER -> <<>>

\* the text to_csv writes for a cell: a missing value is the empty field
CsvCell(x) == IF x.k \in {"nan", "none"} THEN <<>> ELSE Str(x)

\* read_csv's conversion of a field of a float64 column
ParseFloat(s) ==
    IF s = <<>> \/ s = <<"n", "a", "n">> THEN NaN
    ELSE LET dots == {i \in 1..Len(s) : s[i] = "."}
         IN  IF dots = {} THEN Num(10 * ParseInt(s))
             ELSE LET d == CHOOSE i \in dots : TRUE
                  IN  Num(10 * ParseInt(SubSeq(s, 1, d - 1))
                           + (IF d < Len(s) THEN DigitVal(s[d + 1]) ELSE 0))

(* ----------------------------- remote API ------------------------------ *)

NotJson == [json |-> FALSE, list |-> <<>>]
JsonList(l) == [json |-> TRUE, list |-> l]

\* the answers the Ngram endpoint gives to a request for w when it is not rate
\* limiting: a series of mean 0.1 for abcde, a series of mean 0.2 for cdefg,
\* and for bcdef either an empty result or an error page that is not JSON
Api(w) ==
    CASE w = "abcde" -> {[status_code |-> 200, body |-> JsonList(<<[timeseries |-> <<1>>]>>)]}
      [] w = "cdefg" -> {[status_code |-> 200, body |-> JsonList(<<[timeseries |-> <<1, 3>>]>>)]}
      [] OTHER -> {[status_code |-> 200, body |-> JsonList(<<>>)],
                   [status_code |-> 500, body |-> NotJson]}

RateLimited == [status_code |-> tooManyReqsCode, body |-> NotJson]
NoResponse == [status_code |-> 0, body |-> NotJson]

RECURSIVE Sum(_)
Sum(s) == IF s = <<>> THEN 0 ELSE s[1] + Sum(Tail(s))

\* Mean taking the sum of the series for its mean
MeanAsSum(ts) == IF ts = <<>> THEN NaN ELSE Num(Sum(ts))

\* np.mean: nan (with a warning, no exception) for an empty series
Mean(ts) == IF ts = <<>> THEN NaN ELSE Num(Sum(ts) \div Len(ts))

\* ParseUsage with an except clause that returns np.nan
ParseUsageNaN(r) ==
    IF ~r.body.json THEN NaN
    ELSE IF r.body.list = <<>> THEN NaN
    ELSE Mean(r.body.list[1].timeseries)

\* the try/except of getNgramUsage applied to the response fetch returned
ParseUsage(r) ==
    IF ~r.body.json THEN emptyValue
    ELSE IF r.body.list = <<>> THEN emptyValue
    ELSE Mean(r.body.list[1].timeseries)

(* ------------------------------- state --------------------------------- *)

VARIABLES
    wordlist,       \* the second array of wordle.js
    answers,        \* the first array of wordle.js
    file,           \* wordle.tsv on disk: NoFile or its lines
    buf,            \* rows written to the open file object and not yet on disk
    pc,             \* position of the cache cell
    queriedWords,   \* the word column read at the start of the run
    pos,            \* position of the filter iterator in words
    word,           \* loop variable of the cache cell
    res,            \* res of fetch
    occurrence,     \* occurrence of the cache cell
    output,         \* wordle.csv: NoFile or its lines
    lastEnd,        \* how the latest run of the cache cell ended
    stops,          \* number of runs cut short and of removals of wordle.tsv
    startFile,      \* wordle.tsv as it was when the current run started
    lookedUp,       \* words getNgramUsage was called with in the current run
    returned,       \* words whose getNgramUsage call returned since the file was created
    calls,          \* requests, responses and sleeps of the current fetch call
    removed         \* whether a wordle.tsv holding records has been removed

vars == <<wordlist, answers, file, buf, pc, queriedWords, pos, word, res,
          occurrence, output, lastEnd, stops, startFile, lookedUp,
          returned, calls, removed>>

inputs == <<wordlist, answers>>
loopVars == <<queriedWords, pos, word, res, occurrence>>

words == wordlist \o answers

NoDuplicates(s) == \A i, j \in 1..Len(s) : i # j => s[i] # s[j]

SeqsUpTo(S, n) == UNION {[1..m -> S] : m \in 0..n}

Init ==
    /\ wordlist \in SeqsUpTo(Range(Vocabulary), Len(Vocabulary))
    /\ answers \in SeqsUpTo(Range(Vocabulary), Len(Vocabulary))
    /\ NoDuplicates(wordlist \o answers)
    /\ file = NoFile
    /\ buf = <<>>
    /\ pc = "idle"
    /\ queriedWords = <<>>
    /\ pos = 1
    /\ word = ""
    /\ res = NoResponse
    /\ occurrence = emptyValue
    /\ output = NoFile
    /\ lastEnd = "none"
    /\ stops = 0
    /\ startFile = NoFile
    /\ lookedUp = {}
    /\ returned = {}
    /\ calls = <<>>
    /\ removed = FALSE

(* ----------------------------- cache cell ------------------------------ *)

\* the cell has stopped: the names of the loop are rebound by the next run
\* before anything reads them
CellStopped ==
    /\ queriedWords' = <<>>
    /\ pos' = 1
    /\ word' = ""
    /\ res' = NoResponse
    /\ occurrence' = emptyValue
    /\ calls' = <<>>

\* ReadWords taking the first record for a second header line
ReadWordsOffByOne(f) == [i \in 1..(Len(f) - 2) |-> f[i + 2][1]]

\* list(pd.read_csv(fn, delimiter='\t').word): the first field of every line after the header
ReadWords(f) == [i \in 1..(Len(f) - 1) |-> f[i + 1][1]]

\* isQueried accepting every word: the run does not skip what is recorded
isQueriedAlways(w) == TRUE

\* isQueried = lambda word : word not in queriedWords
isQueried(w) == w \notin Range(queriedWords)

\* FormatRow writing nan for a missing result
FormatRowNaN(w, o) == <<w, IF o = emptyValue THEN <<"n", "a", "n">> ELSE Str(o)>>

\* '{}\t{}\n'.format(word, occurrence)
FormatRow(w, o) == <<w, Str(o)>>

\* the with statement leaving its block: close() puts the buffered rows on disk
Closed(f, b) == IF f = NoFile THEN f ELSE f \o b

\* RunStart without the is_file guard: every run opens the file with 'w'
RunStartTruncating ==
    /\ pc = "idle"
    /\ startFile' = file
    /\ lookedUp' = {}
    /\ lastEnd' = "running"
    /\ file' = <<>>
    /\ returned' = {}
    /\ pc' = "header"
    /\ UNCHANGED <<inputs, buf, loopVars, output, stops, calls, removed>>

\* if not Path(fn).is_file(): open(fn, 'w') creates the empty file
RunStart ==
    /\ pc = "idle"
    /\ startFile' = file
    /\ lookedUp' = {}
    /\ lastEnd' = "running"
    /\ IF file = NoFile
       THEN /\ file' = <<>>
            /\ returned' = {}
            /\ pc' = "header"
       ELSE /\ pc' = "read"
            /\ UNCHANGED <<file, returned>>
    /\ UNCHANGED <<inputs, buf, loopVars, output, stops, calls, removed>>

\* WriteHeader of a cell that creates the file and writes no header line
WriteHeaderNothing ==
    /\ pc = "header"
    /\ pc' = "read"
    /\ UNCHANGED <<inputs, file, buf, loopVars, output, lastEnd, stops,
                   startFile, lookedUp, returned, calls, removed>>

\* f.write('word\toccurrence\n') and the close of the with block
WriteHeader ==
    /\ pc = "header"
    /\ file' = <<TsvHeader>>
    /\ pc' = "read"
    /\ UNCHANGED <<inputs, buf, loopVars, output, lastEnd, stops,
                   startFile, lookedUp, returned, calls, removed>>

\* queriedWords = list(pd.read_csv(...).word); read_csv raises EmptyDataError
\* on a file without a header line
ReadQueried ==
    /\ pc = "read"
    /\ IF file = <<>>
       THEN /\ pc' = "idle"
            /\ lastEnd' = "raised_in_read"
            /\ UNCHANGED <<queriedWords, pos>>
       ELSE /\ queriedWords' = ReadWords(file)
            /\ pos' = 1
            /\ pc' = "next"
            /\ UNCHANGED lastEnd
    /\ UNCHANGED <<inputs, file, buf, word, res, occurrence, output, stops, startFile, lookedUp, returned, calls, removed>>

\* positions of words the filter iterator has not passed and isQueried accepts
Remaining == {i \in pos..Len(words) : isQueried(words[i])}

\* NextWord of a loop that writes the word before it looks it up
NextWordEager ==
    /\ pc = "next"
    /\ IF Remaining = {}
       THEN /\ file' = Closed(file, buf)
            /\ buf' = <<>>
            /\ pc' = "idle"
            /\ lastEnd' = "complete"
            /\ CellStopped
            /\ UNCHANGED lookedUp
       ELSE LET i == CHOOSE m \in Remaining : \A n \in Remaining : m <= n
            IN  /\ word' = words[i]
                /\ pos' = i + 1
                /\ lookedUp' = lookedUp \cup {words[i]}
                /\ calls' = <<>>
                /\ pc' = "get"
                /\ buf' = Append(buf, <<words[i]>>)
                /\ UNCHANGED <<file, lastEnd, queriedWords, res, occurrence>>
    /\ UNCHANGED <<inputs, output, stops, startFile, returned, removed>>

\* for word in wordsToQuery: the next accepted word, or the end of the loop,
\* the close of the file and print("Querying is complete")
NextWord ==
    /\ pc = "next"
    /\ IF Remaining = {}
       THEN /\ file' = Closed(file, buf)
            /\ buf' = <<>>
            /\ pc' = "idle"
            /\ lastEnd' = "complete"
            /\ CellStopped
            /\ UNCHANGED lookedUp
       ELSE LET i == CHOOSE m \in Remaining : \A n \in Remaining : m <= n
            IN  /\ word' = words[i]
                /\ pos' = i + 1
                /\ lookedUp' = lookedUp \cup {words[i]}
                /\ calls' = <<>>
                /\ pc' = "get"
                /\ UNCHANGED <<file, buf, lastEnd, queriedWords, res, occurrence>>
    /\ UNCHANGED <<inputs, output, stops, startFile, returned, removed>>

(* --------------------------- frequency client -------------------------- *)

GetEvent(w) == [e |-> "get", url |-> url, content |-> w, n |-> 0]
RespEvent(r) == [e |-> "resp", url |-> url, content |-> "", n |-> r.status_code]
SleepEvent(t) == [e |-> "sleep", url |-> "", content |-> "", n |-> t]

\* number of rate-limited responses the current fetch call has received
Count429 == Cardinality({i \in 1..Len(calls) : calls[i] = RespEvent(RateLimited)})

\* MustRetry of a fetch that returns whatever the first request gave
MustRetryNever(r) == FALSE

\* res.status_code == tooManyReqsCode: the condition of the if and the while of fetch
MustRetry(r) == r.status_code = tooManyReqsCode

\* res = requests.get(url, params): the endpoint answers, rate limited or not
Get ==
    /\ pc = "get"
    /\ \E r \in Api(word) \cup (IF Count429 < MaxRetries THEN {RateLimited} ELSE {}) :
          /\ res' = r
          /\ calls' = calls \o <<GetEvent(word), RespEvent(r)>>
    /\ pc' = "check"
    /\ UNCHANGED <<inputs, file, buf, queriedWords, pos, word, occurrence, output,
                   lastEnd, stops, startFile, lookedUp, returned, removed>>

\* requests.get raises (no connection): fetch is called outside the try of
\* getNgramUsage, so the exception leaves the loop and the with block closes the file
GetRaises ==
    /\ pc = "get"
    /\ stops < MaxStops
    /\ stops' = stops + 1
    /\ file' = Closed(file, buf)
    /\ buf' = <<>>
    /\ pc' = "idle"
    /\ lastEnd' = "raised_in_lookup"
    /\ CellStopped
    /\ UNCHANGED <<inputs, output, startFile, lookedUp, returned, removed>>

\* if/while res.status_code == tooManyReqsCode ... return res
Check ==
    /\ pc = "check"
    /\ pc' = IF MustRetry(res) THEN "sleep" ELSE "parse"
    /\ UNCHANGED <<inputs, file, buf, loopVars, output, lastEnd, stops,
                   startFile, lookedUp, returned, calls, removed>>

\* Sleep of a fetch whose while loop sleeps and tests the same response again
SleepNoRequest ==
    /\ pc = "sleep"
    /\ pc' = "check"
    /\ UNCHANGED <<inputs, file, buf, loopVars, output, lastEnd, stops,
                   startFile, lookedUp, returned, calls, removed>>

\* sleep(wait)
Sleep ==
    /\ pc = "sleep"
    /\ calls' = Append(calls, SleepEvent(wait))
    /\ pc' = "get"
    /\ UNCHANGED <<inputs, file, buf, loopVars, output, lastEnd, stops,
                   startFile, lookedUp, returned, removed>>

\* the try/except of getNgramUsage and its return to the cache cell
Parse ==
    /\ pc = "parse"
    /\ occurrence' = ParseUsage(res)
    /\ returned' = returned \cup {word}
    /\ pc' = "write"
    /\ UNCHANGED <<inputs, file, buf, queriedWords, pos, word, res, output, lastEnd,
                   stops, startFile, lookedUp, calls, removed>>

\* row = '{}\t{}\n'.format(word, occurrence); f.write(row)
Write ==
    /\ pc = "write"
    /\ buf' = Append(buf, FormatRow(word, occurrence))
    /\ pc' = "next"
    /\ UNCHANGED <<inputs, file, loopVars, output, lastEnd, stops,
                   startFile, lookedUp, returned, calls, removed>>

InLoop == pc \in {"next", "get", "check", "sleep", "parse", "write"}

\* the file object writes a filled chunk of whole rows to disk
Flush ==
    /\ InLoop
    /\ buf # <<>>
    /\ \E n \in 1..Len(buf) :
          /\ file' = file \o SubSeq(buf, 1, n)
          /\ buf' = SubSeq(buf, n + 1, Len(buf))
    /\ UNCHANGED <<inputs, pc, loopVars, output, lastEnd, stops,
                   startFile, lookedUp, returned, calls, removed>>

\* KeyboardInterrupt in the running cell: the with block closes the open file
Interrupt ==
    /\ pc # "idle"
    /\ stops < MaxStops
    /\ stops' = stops + 1
    /\ file' = Closed(file, buf)
    /\ buf' = <<>>
    /\ pc' = "idle"
    /\ lastEnd' = "interrupt"
    /\ CellStopped
    /\ UNCHANGED <<inputs, output, startFile, lookedUp, returned, removed>>

\* the kernel process is terminated: what the file object had not written is lost
Kill ==
    /\ pc # "idle"
    /\ stops < MaxStops
    /\ stops' = stops + 1
    /\ buf' = <<>>
    /\ pc' = "idle"
    /\ lastEnd' = "kill"
    /\ CellStopped
    /\ UNCHANGED <<inputs, file, output, startFile, lookedUp, returned, removed>>

\* wordle.tsv is removed from the working directory between two runs
DeleteFile ==
    /\ pc = "idle"
    /\ file # NoFile
    /\ stops < MaxStops
    /\ stops' = stops + 1
    /\ removed' = (removed \/ Len(file) > 1)
    /\ file' = NoFile
    /\ lastEnd' = "deleted"
    /\ UNCHANGED <<inputs, buf, pc, loopVars, output, startFile, lookedUp,
                   returned, calls>>

(* ------------------------------ assembler ------------------------------ *)

\* ReadCsv reading without a header line: the first record is taken for it
ReadCsvNoHeader(f) ==
    [i \in 1..(Len(f) - 2) |->
        [word |-> f[i + 2][1], occurrence |-> ParseFloat(f[i + 2][2])]]

\* pd.read_csv(fn, delimiter="\t", dtype={'word': str, 'occurrence': np.float64})
ReadCsv(f) ==
    [i \in 1..(Len(f) - 1) |->
        [word |-> f[i + 1][1], occurrence |-> ParseFloat(f[i + 1][2])]]

\* ReplaceNaN without the replacement
ReplaceNaNKept(x) == x

\* data['occurrence'].replace(np.nan, 0)
ReplaceNaN(x) == IF x = NaN THEN Num(0) ELSE x

\* DayOf counting the days from one
DayOfOneBased(w) == IF w \in Range(answers) THEN IntVal(IndexOf(answers, w)) ELSE None

\* lambda w: answers.index(w) if w in answers else None
DayOf(w) == IF w \in Range(answers) THEN IntVal(IndexOf(answers, w) - 1) ELSE None

\* the dtype pandas gives the result of apply: int64 when every value is an
\* int, float64 (None becoming NaN) when ints and None are mixed
DayColumn(col) ==
    IF (\E i \in 1..Len(col) : col[i] = None) /\ (\E i \in 1..Len(col) : col[i] # None)
    THEN [i \in 1..Len(col) |-> IF col[i] = None THEN NaN ELSE Num(10 * col[i].v)]
    ELSE col

RemoveAt(s, i) == SubSeq(s, 1, i - 1) \o SubSeq(s, i + 1, Len(s))

\* data.sort_values('word')
RECURSIVE SortByWord(_)
SortByWord(rows) ==
    IF rows = <<>> THEN <<>>
    ELSE LET m == CHOOSE i \in 1..Len(rows) :
                     \A j \in 1..Len(rows) : ~WordLess(rows[j].word, rows[i].word)
         IN  <<rows[m]>> \o SortByWord(RemoveAt(rows, m))

\* to_csv('wordle.csv', index=False)
ToCsv(rows) ==
    <<CsvHeader>> \o
    [i \in 1..Len(rows) |->
        <<rows[i].word, CsvCell(rows[i].occurrence), CsvCell(rows[i].day)>>]

\* the cells after the cache cell, from read_csv to to_csv
Assembled(f) ==
    LET data == ReadCsv(f)
        filled == [i \in 1..Len(data) |->
                      [data[i] EXCEPT !.occurrence = ReplaceNaN(data[i].occurrence)]]
        day == DayColumn([i \in 1..Len(filled) |-> DayOf(filled[i].word)])
        withDay == [i \in 1..Len(filled) |->
                      [word |-> filled[i].word,
                       occurrence |-> filled[i].occurrence,
                       day |-> day[i]]]
    IN  ToCsv(SortByWord(withDay))

\* the assembler cells run once the cache cell has printed that querying is complete
Assemble ==
    /\ pc = "idle"
    /\ lastEnd = "complete"
    /\ output' = Assembled(file)
    /\ UNCHANGED <<inputs, file, buf, pc, loopVars, lastEnd, stops,
                   startFile, lookedUp, returned, calls, removed>>

Next ==
    \/ RunStart
    \/ WriteHeader
    \/ ReadQueried
    \/ NextWord
    \/ Get
    \/ GetRaises
    \/ Check
    \/ Sleep
    \/ Parse
    \/ Write
    \/ Flush
    \/ Interrupt
    \/ Kill
    \/ DeleteFile
    \/ Assemble

Spec == Init /\ [][Next]_vars

\* the two arrays as any lists of words: nothing in the notebook removes a word
\* that is in both arrays or twice in one (the overlap is only displayed)
InitAny ==
    /\ wordlist \in SeqsUpTo(Range(Vocabulary), Len(Vocabulary))
    /\ answers \in SeqsUpTo(Range(Vocabulary), Len(Vocabulary))
    /\ Len(wordlist) + Len(answers) <= Len(Vocabulary)
    /\ file = NoFile
    /\ buf = <<>>
    /\ pc = "idle"
    /\ queriedWords = <<>>
    /\ pos = 1
    /\ word = ""
    /\ res = NoResponse
    /\ occurrence = emptyValue
    /\ output = NoFile
    /\ lastEnd = "none"
    /\ stops = 0
    /\ startFile = NoFile
    /\ lookedUp = {}
    /\ returned = {}
    /\ calls = <<>>
    /\ removed = FALSE

SpecAny == InitAny /\ [][Next]_vars

\* the kernel runs the cell it was given: each statement of a running cell is
\* eventually executed, and requests.get and sleep(wait) return. Starting a
\* run, stopping one and removing the file are the user's and are not forced.
CellRuns ==
    /\ WF_vars(WriteHeader)
    /\ WF_vars(ReadQueried)
    /\ WF_vars(NextWord)
    /\ WF_vars(Get)
    /\ WF_vars(Check)
    /\ WF_vars(Sleep)
    /\ WF_vars(Parse)
    /\ WF_vars(Write)

SpecLive == Init /\ [][Next]_vars /\ CellRuns

(* ------------------------------ properties ----------------------------- *)

Universe == Range(words)

\* the rows of wordle.csv after its header line
OutputRows == Tail(output)

\* the records wordle.tsv holds: none when it is absent or empty
Records(f) == IF f = NoFile \/ f = <<>> THEN <<>> ELSE Tail(f)

RecordedWords(f) == {Records(f)[i][1] : i \in 1..Len(Records(f))}

\* what getNgramUsage returns for w: the same for every answer of the endpoint
Usage(w) == ParseUsage(CHOOSE r \in Api(w) : TRUE)

\* wordle.tsv after one run of the cache cell that starts without the file
\* and is never cut short
UninterruptedFile ==
    <<TsvHeader>> \o [i \in 1..Len(words) |-> <<words[i], Str(Usage(words[i]))>>]

\* C1: once the cache cell has completed and the assembler has run, wordle.csv
\* holds exactly one row for every word of wordlist + answers and no row for
\* any other word.
C1_OneRowPerWord ==
    output # NoFile =>
        /\ \A w \in Universe :
              Cardinality({i \in 1..Len(OutputRows) : OutputRows[i][1] = w}) = 1
        /\ \A i \in 1..Len(OutputRows) : OutputRows[i][1] \in Universe

\* a run that found the file with its header only (an earlier run was cut
\* short) completed, and the assembler wrote at least two rows
C1_Witness ==
    /\ output # NoFile
    /\ Len(OutputRows) >= 2
    /\ lastEnd = "complete"
    /\ startFile = <<TsvHeader>>
    /\ ~removed

\* C2: the words looked up in a run are disjoint from the words recorded in
\* wordle.tsv when the run started.
C2_NoRefetch == lookedUp \cap RecordedWords(startFile) = {}

\* a run that started with a recorded word has looked another word up
C2_Witness == lookedUp # {} /\ RecordedWords(startFile) # {}

\* C3: whatever the interruptions and re-runs, the wordle.csv written after
\* the cache cell completed is the one a single uninterrupted run gives: same
\* rows, same occurrence and day, same order.
C3_SameAsUninterrupted == output # NoFile => output = Assembled(UninterruptedFile)

\* the run that completed the cache resumed a file holding part of the
\* records, and the assembler has run
C3_Witness ==
    /\ output # NoFile
    /\ lastEnd = "complete"
    /\ ~removed
    /\ Len(Records(startFile)) >= 1
    /\ Len(Records(startFile)) < Len(Records(file))

\* C4: in wordle.csv the day of a word of answers is its zero-based position
\* in answers, and the day of any other word is null.
C4_DayIsPosition ==
    output # NoFile =>
        \A i \in 1..Len(OutputRows) :
            LET w == OutputRows[i][1]
                day == OutputRows[i][3]
            IN  IF \E n \in 1..Len(answers) : answers[n] = w
                THEN /\ day # <<>>
                     /\ \A n \in 1..Len(answers) :
                           answers[n] = w => ParseFloat(day) = Num(10 * (n - 1))
                ELSE day = <<>>

\* wordle.csv written for a universe with a word of wordlist and an answer
C4_Witness == output # NoFile /\ Len(wordlist) >= 1 /\ Len(answers) >= 1

\* the occurrence field of the record wordle.tsv holds for w
CachedField(w) ==
    LET i == CHOOSE n \in 1..Len(Records(file)) : Records(file)[n][1] = w
    IN  Records(file)[i][2]

\* C5: in wordle.csv occurrence is never null and never negative; a word whose
\* cached result is missing has occurrence 0 and every other word keeps the
\* value the cache records.
C5_OccurrenceNormalized ==
    (output # NoFile /\ lastEnd = "complete") =>
        \A i \in 1..Len(OutputRows) :
            LET w == OutputRows[i][1]
                o == OutputRows[i][2]
                c == CachedField(w)
            IN  /\ o # <<>>
                /\ ParseFloat(o).k = "num"
                /\ ParseFloat(o).v >= 0
                /\ IF c = <<>>
                   THEN ParseFloat(o) = Num(0)
                   ELSE ParseFloat(o) = ParseFloat(c)

\* wordle.csv written from a cache with a missing result and a value
C5_Witness ==
    /\ output # NoFile
    /\ lastEnd = "complete"
    /\ \E i, j \in 1..Len(Records(file)) :
          Records(file)[i][2] = <<>> /\ Records(file)[j][2] = <<"0", ".", "2">>

\* the response carries no usable series: its body is not JSON or its list is empty
NoResult(r) == ~r.body.json \/ r.body.list = <<>>

\* C6 (as stated): getNgramUsage never raises, whatever fails.
C6_NeverRaises == lastEnd # "raised_in_lookup"

\* C6 (amended): getNgramUsage returns the empty string when the response has
\* no result or cannot be parsed, and a number or nan otherwise; the only
\* exception that leaves it is the one requests.get raises inside fetch.
C6_MissingOnBadResponse ==
    [][ /\ (pc = "parse" /\ pc' = "write") =>
              IF NoResult(res) THEN occurrence' = emptyValue
              ELSE occurrence'.k \in {"num", "nan"}
        /\ (lastEnd' = "raised_in_lookup" /\ lastEnd # "raised_in_lookup") => pc = "get"
      ]_vars

\* getNgramUsage has returned the empty string for a response that is not JSON
C6_Witness == pc = "write" /\ res.status_code = 500 /\ occurrence = emptyValue

\* C7: fetch returns no rate-limited response; every 429 is followed by one
\* sleep of the wait interval and one new request with the same url and
\* params; the first response that is not a 429 ends the calls.
C7_FetchRetries ==
    /\ \A i \in 1..Len(calls) :
          /\ (i % 3 = 1) => calls[i] = GetEvent(word)
          /\ (i % 3 = 2) => calls[i].e = "resp"
          /\ (i % 3 = 0) => calls[i] = SleepEvent(wait) /\ calls[i - 1].n = tooManyReqsCode
          /\ (calls[i].e = "resp" /\ calls[i].n # tooManyReqsCode) => i = Len(calls)
    /\ pc = "sleep" => calls[Len(calls)] = RespEvent(RateLimited)
    /\ pc \in {"parse", "write"} =>
          /\ res.status_code # tooManyReqsCode
          /\ Len(calls) >= 2
          /\ calls[Len(calls)] = RespEvent(res)

\* fetch has returned after one rate-limited response, one sleep and a second request
C7_Witness == pc = "parse" /\ Len(calls) = 5 /\ calls[2].n = tooManyReqsCode

\* C8: a lookup that ends as missing does not abort the run: the step that
\* follows appends the word with an empty occurrence field and goes on to the
\* next word, and no later run looks a word so recorded up again.
C8_MissingIsRecorded ==
    [][ /\ (pc = "write" /\ occurrence = emptyValue /\ pc' \notin {"write", "idle"}) =>
              /\ pc' = "next"
              /\ buf' = Append(buf, <<word, <<>>>>)
              /\ lastEnd' = "running"
        /\ \A i \in 1..Len(Records(startFile')) :
              Records(startFile')[i][2] = <<>> => Records(startFile')[i][1] \notin lookedUp'
      ]_vars

\* a missing result was recorded with an empty field, the run went on, and
\* a later run that started with that record is writing another word
C8_Witness ==
    /\ pc = "write"
    /\ lookedUp # {}
    /\ \E i \in 1..Len(Records(startFile)) : Records(startFile)[i][2] = <<>>

\* C9: every record on disk is a whole (word, occurrence) row of a word whose
\* lookup has returned, and the word being looked up has no record.
C9_NoPartialRows ==
    /\ \A i \in 1..Len(Records(file)) :
          /\ Len(Records(file)[i]) = 2
          /\ Records(file)[i][1] \in returned
          /\ Records(file)[i][2] = Str(Usage(Records(file)[i][1]))
    /\ pc \in {"get", "check", "sleep", "parse"} => word \notin RecordedWords(file)

\* a run was cut short during a lookup while an earlier row was already on disk
C9_Witness ==
    /\ pc = "idle"
    /\ lastEnd \in {"interrupt", "kill"}
    /\ Len(Records(file)) >= 1
    /\ lookedUp \ returned # {}

\* C10: a run that starts without wordle.tsv, after a removal or not, creates
\* it with the header line only, takes no word for recorded, and on completion
\* has looked up every word and left the file a first run leaves.
C10_DeleteResets ==
    startFile = NoFile =>
        /\ pc = "read" => file = <<TsvHeader>>
        /\ InLoop => queriedWords = <<>>
        /\ lastEnd = "complete" => (lookedUp = Universe /\ file = UninterruptedFile)

\* a file holding records was removed and the next run has completed
C10_Witness ==
    /\ removed
    /\ startFile = NoFile
    /\ lastEnd = "complete"
    /\ Len(Records(file)) >= 2

\* the inputs of the worked example: word-list [abcde], answers [bcdef, cdefg]
ExampleInputs == wordlist = <<"abcde">> /\ answers = <<"bcdef", "cdefg">>

\* C11: for word-list [abcde], answers [bcdef, cdefg] and lookups 0.1, missing
\* and 0.2, wordle.csv has exactly three rows in ascending word order:
\* abcde with occurrence 0.1 and a null day, bcdef with occurrence 0.0 and day
\* 0, cdefg with occurrence 0.2 and day 1.
C11_ExampleRows ==
    (ExampleInputs /\ output # NoFile) =>
        /\ Len(OutputRows) = 3
        /\ <<OutputRows[1][1], OutputRows[2][1], OutputRows[3][1]>>
              = <<"abcde", "bcdef", "cdefg">>
        /\ <<OutputRows[1][2], OutputRows[2][2], OutputRows[3][2]>>
              = << <<"0", ".", "1">>, <<"0", ".", "0">>, <<"0", ".", "2">> >>
        /\ OutputRows[1][3] = <<>>
        /\ ParseFloat(OutputRows[2][3]) = Num(0)
        /\ ParseFloat(OutputRows[3][3]) = Num(10)

\* wordle.csv has been written for the inputs of the example
C11_Witness == ExampleInputs /\ output # NoFile /\ Len(output) = 4

\* the words of the rows the current run has appended, on disk or still buffered
Appended == [i \in 1..(Len(Records(file) \o buf) - Len(Records(startFile))) |->
                (Records(file) \o buf)[Len(Records(startFile)) + i][1]]

IsPrefix(s, t) == Len(s) <= Len(t) /\ SubSeq(t, 1, Len(s)) = s

\* C13: while wordle.tsv is not removed, no step of a run changes or drops a
\* line the file holds: the file before the step is a prefix of the file after
\* it, and during and after a run the file the run started with is a prefix of
\* the file on disk.
C13_AppendOnly ==
    [][ /\ (file # NoFile /\ file' # NoFile) => IsPrefix(file, file')
        /\ (startFile' # NoFile /\ file' # NoFile /\ lastEnd' # "none")
              => IsPrefix(startFile', file')
      ]_vars

\* a run that started with the header and a record was cut short after it had
\* put another record on disk
C13_Witness ==
    /\ pc = "idle"
    /\ lastEnd \in {"interrupt", "kill", "raised_in_lookup"}
    /\ Len(Records(startFile)) >= 1
    /\ Len(Records(file)) > Len(Records(startFile))

\* the run was ended from outside: interrupted, terminated, or no connection
CutShort == lastEnd \in {"interrupt", "kill", "raised_in_lookup"}

====
